---- MODULE Spec2Model ----
(***************************************************************************)
(* The track repository of music-tracker-api (utils/db.ts): the Track      *)
(* Store (a MongoDB collection behind the mongoose model TrackModel), the  *)
(* Media Store (Cloudinary) and the repository functions between them.     *)
(*                                                                         *)
(* Every repository function is async: it runs up to its next `await`,     *)
(* the awaited store call takes effect atomically at the store, and other  *)
(* requests may run in between.  One call of each function can be in       *)
(* flight at a time (a slot per function); a slot's pc is the await the    *)
(* call is suspended at.  A finished call shows its answer ("returned" or  *)
(* "thrown") in its slot and the caller takes it before anything else      *)
(* happens.  Every store call may reject (network error), in which case    *)
(* the exception propagates: no function has a try/catch.                  *)
(*                                                                         *)
(* The callers of a specification are the requests it lets happen; the     *)
(* four specifications differ in their callers only.                       *)
(*                                                                         *)
(* Text is a sequence of character codes ("A" = 65, "a" = 97, "." = 46),   *)
(* decimal text a sequence of digits; both compare as MongoDB compares     *)
(* strings (code by code).                                                 *)
(***************************************************************************)
EXTENDS Integers, Sequences, FiniteSets, TLC

(* ------------------------------ bounds --------------------------------- *)

\* Clock ticks (milliseconds) a run may see after the first instant.
MaxTicks == 1
\* Distinct slugs the callers use (so at most this many tracks coexist).
MaxSlugs == 2
\* Longest id list given to deleteMultipleTracks.
MaxBatch == 2
\* Largest page and limit given to getTracks.
MaxPage == 2
MaxLimit == 2
\* Repository calls that may be in flight (called, not yet answered) at once.
MaxInFlight == 2

(* ------------------------------- text ---------------------------------- *)

\* Date.now() of the first instant of a run; chosen so that the decimal
\* text of the clock changes width during the run ("9" -> "10").
FirstInstant == 9
LastInstant == FirstInstant + MaxTicks
Instants == FirstInstant..LastInstant

RECURSIVE toString(_)
\* Number.prototype.toString(): the decimal digits, most significant first.
toString(n) == IF n < 10 THEN <<n>> ELSE toString(n \div 10) \o <<n % 10>>

\* Date.prototype.toISOString(): fixed-width text; of "YYYY-MM-DDTHH:mm:ss.sssZ"
\* the model keeps the digits that differ between the instants of a run.
toISOString(t) == <<(t \div 10) % 10, t % 10>>

\* String comparison of MongoDB's default (binary) collation.
RECURSIVE StrLess(_, _)
StrLess(a, b) ==
  IF a = <<>> THEN b # <<>>
  ELSE IF b = <<>> THEN FALSE
  ELSE IF Head(a) # Head(b) THEN Head(a) < Head(b)
  ELSE StrLess(Tail(a), Tail(b))

\* Case folding of the regex flag 'i' (ASCII letters).
Lower(c) == IF c \in 65..90 THEN c + 32 ELSE c

\* new RegExp(pattern, 'i').test(s) for a pattern of literals and "." :
\* the pattern is not escaped, so "." (46) matches any character.
RegExpTest(pattern, s) ==
  \E k \in 0..(Len(s) - Len(pattern)) :
    \A j \in 1..Len(pattern) :
      \/ pattern[j] = 46
      \/ Lower(pattern[j]) = Lower(s[k + j])

(* ------------------------------ inputs --------------------------------- *)

SlugNames == <<"s1", "s2", "s3", "s4">>
Slugs == {SlugNames[i] : i \in 1..MaxSlugs}

\* The tracks the callers create: "Ab" by "b" under the odd slugs, and
\* "b" by "A" on the album "a" in genre Rock under the even ones.
\* Omit<Track, 'id' | 'createdAt' | 'updatedAt'>
TrackInputs ==
  { IF i % 2 = 1
    THEN [title |-> <<65, 98>>, artist |-> <<98>>, album |-> <<>>, genres |-> <<>>,
          coverImage |-> "", audioFile |-> "", slug |-> SlugNames[i]]
    ELSE [title |-> <<98>>, artist |-> <<65>>, album |-> <<97>>, genres |-> <<"Rock">>,
          coverImage |-> "", audioFile |-> "", slug |-> SlugNames[i]] :
    i \in 1..MaxSlugs }

\* Ids the callers name: the ids createTrack can have generated.
Ids == {toString(t) : t \in Instants}

\* Partial<Track> values given to updateTrack: the URL of an upload, or
\* any one of audioFile, slug and id.
UrlUpdates == {[audioFile |-> "url"]}
Updates ==
  UrlUpdates
    \cup {[slug |-> s] : s \in Slugs}
    \cup {[id |-> i] : i \in Ids}

\* string[] values given to deleteMultipleTracks.
RECURSIVE SeqsUpTo(_, _)
SeqsUpTo(S, n) ==
  IF n = 0 THEN {<<>>}
  ELSE LET shorter == SeqsUpTo(S, n - 1)
       IN shorter \cup {Append(s, x) : s \in shorter, x \in S}
IdLists == SeqsUpTo(Ids, MaxBatch)

\* QueryParams values given to getTracks: none, or all seven.
QueryParams ==
  {<<>>} \cup
  [search : {<<>>, <<97>>}, genre : {"", "Rock"}, artist : {<<>>, <<66>>},
   sort : {"createdAt", "artist"}, order : {"asc", "desc"},
   page : 1..MaxPage, limit : 1..MaxLimit]

Null == [null |-> TRUE]

(* ------------------------------- state --------------------------------- *)

VARIABLES
  store,    \* Track Store: the documents of the TrackModel collection
  media,    \* Media Store: the public ids of the hosted objects
  clock,    \* Date.now()
  create,   \* the createTrack call in flight
  update,   \* the updateTrack call in flight
  audio,    \* the deleteAudioFile call in flight
  del,      \* the deleteTrack call in flight
  batch,    \* the deleteMultipleTracks call in flight
  get       \* the getTracks call in flight

vars == <<store, media, clock, create, update, audio, del, batch, get>>

Idle == [pc |-> "idle"]
Answered == {"returned", "thrown"}

Slots == <<create, update, audio, del, batch, get>>

\* Calls that were made and have not finished.
InFlight == Cardinality({n \in 1..6 : Slots[n].pc \notin Answered \cup {"idle"}})
MayCall == InFlight < MaxInFlight

\* No finished call is waiting for its caller: the caller takes the answer
\* of a finished call before anything else happens.
Quiet == \A n \in 1..6 : Slots[n].pc \notin Answered

(* ---------------------------- Track Store ------------------------------ *)

\* trackSchema: `unique: true` on id and on slug (two unique indexes).
trackSchema(docs) ==
  \A a, b \in docs : (a.id = b.id \/ a.slug = b.slug) => a = b

\* TrackModel.findOne({ id }); getTrackById returns the same.
findOne(docs, id) ==
  IF \E t \in docs : t.id = id THEN CHOOSE t \in docs : t.id = id ELSE Null

getTrackById(docs, id) == findOne(docs, id)

\* TrackModel.create with a schema whose slug lacks `unique: true`.
modelCreate_idIndexOnly(docs, doc) ==
  IF \A t \in docs : t.id # doc.id
  THEN [ok |-> TRUE, docs |-> docs \cup {doc}]
  ELSE [ok |-> FALSE, docs |-> docs]

\* TrackModel.create(doc): rejects (E11000 duplicate key) when a unique
\* index refuses the document.
modelCreate(docs, doc) ==
  IF trackSchema(docs \cup {doc}) /\ doc \notin docs
  THEN [ok |-> TRUE, docs |-> docs \cup {doc}]
  ELSE [ok |-> FALSE, docs |-> docs]

\* { ...updates, updatedAt: new Date().toISOString() }
updateSet(updates, now) ==
  [f \in DOMAIN updates \cup {"updatedAt"} |->
     IF f = "updatedAt" THEN toISOString(now) ELSE updates[f]]

\* The update document applied as $set to one document.
applySet(doc, set) ==
  [f \in DOMAIN doc |-> IF f \in DOMAIN set THEN set[f] ELSE doc[f]]

\* TrackModel.findOneAndUpdate({ id }, set, { new: true }): the updated
\* document, null when none has the id; rejects (E11000) when a unique
\* index refuses the updated document.
findOneAndUpdate(docs, id, set) ==
  LET old == findOne(docs, id)
      new == applySet(old, set)
      res == (docs \ {old}) \cup {new}
  IN IF old = Null THEN [ok |-> TRUE, docs |-> docs, doc |-> Null]
     ELSE IF trackSchema(res) /\ Cardinality(res) = Cardinality(docs)
          THEN [ok |-> TRUE, docs |-> res, doc |-> new]
          ELSE [ok |-> FALSE, docs |-> docs, doc |-> Null]

\* findOneAndDelete({ _id: id }): the filter names the wrong key and no
\* document is ever found.
findOneAndDelete_wrongKey(docs, id) == [docs |-> docs, doc |-> Null]

\* TrackModel.findOneAndDelete({ id }): the deleted document or null.
findOneAndDelete(docs, id) ==
  LET old == findOne(docs, id)
  IN [docs |-> docs \ {old}, doc |-> old]

(* ---------------------------- Media Store ------------------------------ *)

\* process.env.CLOUDINARY_FOLDER || 'tracks'
Folder == "tracks"

\* `${folder}/${id}`; upload_stream({ folder, public_id: id }) names the same object.
PublicId(id) == <<Folder, id>>

\* destroy of a public id the Media Store does not know ("not found").
destroy_notFound(objs, publicId) == objs

\* cloudinary.uploader.destroy(publicId): removes the object if it is there.
destroy(objs, publicId) == objs \ {publicId}

\* cloudinary.uploader.upload_stream(...): stores (or overwrites) the object.
upload(objs, publicId) == objs \cup {publicId}

(* ----------------------------- createTrack ----------------------------- *)

\* createTrack up to its await: Date.now() and new Date() are two reads of
\* the clock, which may tick in between.
createTrack_call(track, tick) ==
  /\ create.pc = "idle" /\ MayCall
  /\ clock' = IF tick /\ clock < LastInstant THEN clock + 1 ELSE clock
  /\ create' = [pc |-> "create", error |-> "",
                doc |-> [id |-> toString(clock), title |-> track.title,
                         artist |-> track.artist, album |-> track.album,
                         genres |-> track.genres, coverImage |-> track.coverImage,
                         audioFile |-> track.audioFile, slug |-> track.slug,
                         createdAt |-> toISOString(clock'),
                         updatedAt |-> toISOString(clock')]]
  /\ UNCHANGED <<store, media, update, audio, del, batch, get>>

\* await TrackModel.create(...): resolves with the new document, or rejects
\* (the store is unreachable: up = FALSE; or a duplicate key).
createTrack_create(up) ==
  /\ create.pc = "create"
  /\ LET r == modelCreate(store, create.doc)
     IN IF up /\ r.ok
        THEN /\ store' = r.docs
             /\ create' = [create EXCEPT !.pc = "returned"]
        ELSE /\ store' = store
             /\ create' = [create EXCEPT !.pc = "thrown",
                                         !.error = IF up THEN "E11000" ELSE "network"]
  /\ UNCHANGED <<media, clock, update, audio, del, batch, get>>

(* ----------------------------- updateTrack ----------------------------- *)

\* updateTrack up to its await: the update document is built, with the
\* clock read, when findOneAndUpdate is called.
updateTrack_call(id, updates) ==
  /\ update.pc = "idle" /\ MayCall
  /\ update' = [pc |-> "findOneAndUpdate", id |-> id,
                set |-> updateSet(updates, clock), ret |-> Null]
  /\ UNCHANGED <<store, media, clock, create, audio, del, batch, get>>

\* await TrackModel.findOneAndUpdate(...); return updated?.toObject() ?? null
updateTrack_findOneAndUpdate(up) ==
  /\ update.pc = "findOneAndUpdate"
  /\ LET r == findOneAndUpdate(store, update.id, update.set)
     IN IF up /\ r.ok
        THEN /\ store' = r.docs
             /\ update' = [update EXCEPT !.pc = "returned", !.ret = r.doc]
        ELSE /\ store' = store
             /\ update' = [update EXCEPT !.pc = "thrown"]
  /\ UNCHANGED <<media, clock, create, audio, del, batch, get>>

(* ---------------------------- saveAudioFile ---------------------------- *)

\* saveAudioFile(id, fileName, buffer): one upload; a rejected upload
\* stores nothing.  (The caller writes the returned URL to the record with
\* updateTrack(id, { audioFile: url }).)
saveAudioFile(id) ==
  /\ media' = upload(media, PublicId(id))
  /\ UNCHANGED <<store, clock, create, update, audio, del, batch, get>>

(* --------------------------- deleteAudioFile --------------------------- *)

DeleteAudioFileStages == {"getTrackById", "destroy", "updateTrack"}

\* deleteAudioFile clearing `audioFileUrl` (the field's name in
\* models/Track.ts), which the schema of TrackModel does not have.
deleteAudioFile_audioFileUrl(c, up) ==
  LET same == [pc |-> c.pc, now |-> c.now, docs |-> store, objs |-> media]
  IN IF ~up THEN [same EXCEPT !.pc = "throw"]
     ELSE CASE c.pc = "getTrackById" ->
                 LET track == getTrackById(store, c.id)
                 IN IF track = Null \/ track.audioFile = ""
                    THEN [same EXCEPT !.pc = "return false"]
                    ELSE [same EXCEPT !.pc = "destroy"]
            [] c.pc = "destroy" ->
                 [same EXCEPT !.pc = "updateTrack", !.now = clock,
                              !.objs = destroy(media, PublicId(c.id))]
            [] c.pc = "updateTrack" ->
                 LET r == findOneAndUpdate(store, c.id,
                                           updateSet([audioFileUrl |-> ""], c.now))
                 IN IF r.ok THEN [same EXCEPT !.pc = "return true", !.docs = r.docs]
                    ELSE [same EXCEPT !.pc = "throw"]

\* One await of deleteAudioFile(c.id), for a call c suspended at stage c.pc:
\* where the call goes next ("return true", "return false" and "throw" end
\* it) and what the stores hold afterwards.
deleteAudioFile(c, up) ==
  LET same == [pc |-> c.pc, now |-> c.now, docs |-> store, objs |-> media]
  IN IF ~up THEN [same EXCEPT !.pc = "throw"]
     ELSE CASE c.pc = "getTrackById" ->
                 LET track == getTrackById(store, c.id)
                 IN IF track = Null \/ track.audioFile = ""
                    THEN [same EXCEPT !.pc = "return false"]
                    ELSE [same EXCEPT !.pc = "destroy"]
            [] c.pc = "destroy" ->
                 \* the continuation calls updateTrack, which reads the clock
                 [same EXCEPT !.pc = "updateTrack", !.now = clock,
                              !.objs = destroy(media, PublicId(c.id))]
            [] c.pc = "updateTrack" ->
                 LET r == findOneAndUpdate(store, c.id,
                                           updateSet([audioFile |-> ""], c.now))
                 IN IF r.ok THEN [same EXCEPT !.pc = "return true", !.docs = r.docs]
                    ELSE [same EXCEPT !.pc = "throw"]

deleteAudioFile_call(id) ==
  /\ audio.pc = "idle" /\ MayCall
  /\ audio' = [pc |-> "getTrackById", id |-> id, now |-> clock, ret |-> FALSE]
  /\ UNCHANGED <<store, media, clock, create, update, del, batch, get>>

deleteAudioFile_await(up) ==
  /\ audio.pc \in DeleteAudioFileStages
  /\ LET r == deleteAudioFile(audio, up)
     IN /\ store' = r.docs
        /\ media' = r.objs
        /\ audio' = [audio EXCEPT
             !.now = r.now,
             !.ret = (r.pc = "return true"),
             !.pc = CASE r.pc \in {"return true", "return false"} -> "returned"
                      [] r.pc = "throw" -> "thrown"
                      [] OTHER -> r.pc]
  /\ UNCHANGED <<clock, create, update, del, batch, get>>

(* ----------------------------- deleteTrack ----------------------------- *)

DeleteTrackStages == {"findOneAndDelete"} \cup DeleteAudioFileStages

\* One await of deleteTrack(c.id), for a call c suspended at stage c.pc.
\* `audioFile` is track.audioFile of the deleted document.
deleteTrack(c, up) ==
  IF c.pc = "findOneAndDelete"
  THEN LET r == findOneAndDelete(store, c.id)
           same == [pc |-> c.pc, now |-> c.now, docs |-> store, objs |-> media,
                    audioFile |-> ""]
       IN IF ~up THEN [same EXCEPT !.pc = "throw"]
          ELSE IF r.doc = Null THEN [same EXCEPT !.pc = "return false"]
          ELSE IF r.doc.audioFile # ""
               THEN [same EXCEPT !.pc = "getTrackById", !.docs = r.docs,
                                 !.audioFile = r.doc.audioFile]
               ELSE [same EXCEPT !.pc = "return true", !.docs = r.docs]
  ELSE LET r == deleteAudioFile(c, up)
       IN [pc |-> IF r.pc \in {"return true", "return false"} THEN "return true"
                  ELSE r.pc,
           now |-> r.now, docs |-> r.docs, objs |-> r.objs,
           audioFile |-> c.audioFile]

deleteTrack_call(id) ==
  /\ del.pc = "idle" /\ MayCall
  /\ del' = [pc |-> "findOneAndDelete", id |-> id, now |-> clock,
             audioFile |-> "", hosted |-> FALSE, ret |-> FALSE]
  /\ UNCHANGED <<store, media, clock, create, update, audio, batch, get>>

\* `hosted` remembers whether the Media Store held the track's object when
\* the record was deleted.
deleteTrack_await(up) ==
  /\ del.pc \in DeleteTrackStages
  /\ LET r == deleteTrack(del, up)
     IN /\ store' = r.docs
        /\ media' = r.objs
        /\ del' = [del EXCEPT
             !.now = r.now,
             !.audioFile = r.audioFile,
             !.hosted = IF del.pc = "findOneAndDelete"
                        THEN PublicId(del.id) \in media ELSE @,
             !.ret = (r.pc = "return true"),
             !.pc = CASE r.pc \in {"return true", "return false"} -> "returned"
                      [] r.pc = "throw" -> "thrown"
                      [] OTHER -> r.pc]
  /\ UNCHANGED <<clock, create, update, audio, batch, get>>

(* ------------------------- deleteMultipleTracks ------------------------ *)

\* The loop at its i-th id: the deleteTrack of that id is in flight at stage
\* pc.  `existed` remembers, for each id done, whether its record was in the
\* store when its findOneAndDelete ran.
deleteMultipleTracks_call(ids) ==
  /\ batch.pc = "idle" /\ MayCall
  /\ batch' = [pc |-> IF ids = <<>> THEN "returned" ELSE "findOneAndDelete",
               ids |-> ids, i |-> 1, now |-> clock, audioFile |-> "",
               success |-> <<>>, failed |-> <<>>, existed |-> <<>>]
  /\ UNCHANGED <<store, media, clock, create, update, audio, del, get>>

deleteMultipleTracks_await(up) ==
  /\ batch.pc \in DeleteTrackStages
  /\ LET id == batch.ids[batch.i]
         r == deleteTrack([pc |-> batch.pc, id |-> id, now |-> batch.now,
                           audioFile |-> batch.audioFile], up)
         last == batch.i = Len(batch.ids)
         seen == IF batch.pc = "findOneAndDelete" /\ up
                 THEN Append(batch.existed, findOne(store, id) # Null)
                 ELSE batch.existed
     IN /\ store' = r.docs
        /\ media' = r.objs
        /\ batch' =
             CASE r.pc = "return true" ->
                    [batch EXCEPT !.success = Append(@, id), !.i = @ + 1,
                                  !.existed = seen, !.audioFile = "",
                                  !.pc = IF last THEN "returned" ELSE "findOneAndDelete"]
               [] r.pc = "return false" ->
                    [batch EXCEPT !.failed = Append(@, id), !.i = @ + 1,
                                  !.existed = seen, !.audioFile = "",
                                  !.pc = IF last THEN "returned" ELSE "findOneAndDelete"]
               [] r.pc = "throw" ->
                    [batch EXCEPT !.pc = "thrown", !.existed = seen]
               [] OTHER ->
                    [batch EXCEPT !.pc = r.pc, !.now = r.now, !.existed = seen,
                                  !.audioFile = r.audioFile]
  /\ UNCHANGED <<clock, create, update, audio, del, get>>

(* ------------------------------ getTracks ------------------------------ *)

\* The destructuring defaults of getTracks.
QueryDefaults ==
  [search |-> <<>>, genre |-> "", artist |-> <<>>, sort |-> "createdAt",
   order |-> "desc", page |-> 1, limit |-> 10]

Param(params, name) ==
  IF name \in DOMAIN params THEN params[name] ELSE QueryDefaults[name]

\* The filter object: a key is set only for a truthy (non-empty) parameter.
queryFilter(params) ==
  [k \in (IF Param(params, "search") # <<>> THEN {"$or"} ELSE {})
         \cup (IF Param(params, "genre") # "" THEN {"genres"} ELSE {})
         \cup (IF Param(params, "artist") # <<>> THEN {"artist"} ELSE {}) |->
     CASE k = "$or" -> Param(params, "search")
       [] k = "genres" -> Param(params, "genre")
       [] k = "artist" -> Param(params, "artist")]

\* MongoDB's matching of one document against the filter: the regex on
\* title, artist or album; the genre an element of genres; the regex on artist.
matches(doc, filter) ==
  /\ "$or" \in DOMAIN filter =>
       \/ RegExpTest(filter["$or"], doc.title)
       \/ RegExpTest(filter["$or"], doc.artist)
       \/ RegExpTest(filter["$or"], doc.album)
  /\ "genres" \in DOMAIN filter =>
       \E n \in 1..Len(doc.genres) : doc.genres[n] = filter["genres"]
  /\ "artist" \in DOMAIN filter => RegExpTest(filter["artist"], doc.artist)

\* TrackModel.estimatedDocumentCount(): the count without the filter.
countDocuments_estimated(docs, filter) == Cardinality(docs)

\* TrackModel.countDocuments(filter)
countDocuments(docs, filter) == Cardinality({d \in docs : matches(d, filter)})

\* .sort({ [sort]: order === 'asc' ? 1 : -1 }): the orders MongoDB may give
\* the documents in; documents with equal keys come in any order.
sort(docs, key, order) ==
  LET n == Cardinality(docs)
      before(a, b) == IF order = "asc" THEN StrLess(a[key], b[key])
                      ELSE StrLess(b[key], a[key])
  IN { s \in [1..n -> docs] :
         /\ \A a, b \in 1..n : a # b => s[a] # s[b]
         /\ \A a, b \in 1..n : a < b => ~before(s[b], s[a]) }

\* .skip(n) and .limit(n) of a cursor.
skip(s, n) == SubSeq(s, n + 1, Len(s))
limit(s, n) == SubSeq(s, 1, IF n < Len(s) THEN n ELSE Len(s))

\* find with .skip(page * limit): the pages counted from 0.
find_skipPage(docs, params) ==
  { limit(skip(s, Param(params, "page") * Param(params, "limit")),
          Param(params, "limit")) :
    s \in sort({d \in docs : matches(d, queryFilter(params))},
               Param(params, "sort"), Param(params, "order")) }

\* TrackModel.find(filter).sort(...).skip((page - 1) * limit).limit(limit)
find(docs, params) ==
  { limit(skip(s, (Param(params, "page") - 1) * Param(params, "limit")),
          Param(params, "limit")) :
    s \in sort({d \in docs : matches(d, queryFilter(params))},
               Param(params, "sort"), Param(params, "order")) }

\* `counted` remembers the store the count was taken from.
getTracks_call(params) ==
  /\ get.pc = "idle" /\ MayCall
  /\ get' = [pc |-> "countDocuments", params |-> params, total |-> 0,
             tracks |-> <<>>, counted |-> {}]
  /\ UNCHANGED <<store, media, clock, create, update, audio, del, batch>>

\* const total = await TrackModel.countDocuments(filter)
getTracks_countDocuments(up) ==
  /\ get.pc = "countDocuments"
  /\ get' = IF up
            THEN [get EXCEPT !.pc = "find", !.counted = store,
                             !.total = countDocuments(store, queryFilter(get.params))]
            ELSE [get EXCEPT !.pc = "thrown"]
  /\ UNCHANGED <<store, media, clock, create, update, audio, del, batch>>

\* const tracks = await TrackModel.find(filter)...lean(); return { tracks, total }
getTracks_find(up) ==
  /\ get.pc = "find"
  /\ IF up
     THEN \E page \in find(store, get.params) :
            get' = [get EXCEPT !.pc = "returned", !.tracks = page]
     ELSE get' = [get EXCEPT !.pc = "thrown"]
  /\ UNCHANGED <<store, media, clock, create, update, audio, del, batch>>

(* ------------------------- clock and callers --------------------------- *)

Tick ==
  /\ clock < LastInstant
  /\ clock' = clock + 1
  /\ UNCHANGED <<store, media, create, update, audio, del, batch, get>>

\* The caller takes the answer of a finished call.
createTrack_return ==
  /\ create.pc \in Answered /\ create' = Idle
  /\ UNCHANGED <<store, media, clock, update, audio, del, batch, get>>

updateTrack_return ==
  /\ update.pc \in Answered /\ update' = Idle
  /\ UNCHANGED <<store, media, clock, create, audio, del, batch, get>>

deleteAudioFile_return ==
  /\ audio.pc \in Answered /\ audio' = Idle
  /\ UNCHANGED <<store, media, clock, create, update, del, batch, get>>

deleteTrack_return ==
  /\ del.pc \in Answered /\ del' = Idle
  /\ UNCHANGED <<store, media, clock, create, update, audio, batch, get>>

deleteMultipleTracks_return ==
  /\ batch.pc \in Answered /\ batch' = Idle
  /\ UNCHANGED <<store, media, clock, create, update, audio, del, get>>

getTracks_return ==
  /\ get.pc \in Answered /\ get' = Idle
  /\ UNCHANGED <<store, media, clock, create, update, audio, del, batch>>

(* --------------------------- specifications ---------------------------- *)

Init ==
  /\ store = {}
  /\ media = {}
  /\ clock = FirstInstant
  /\ create = Idle
  /\ update = Idle
  /\ audio = Idle
  /\ del = Idle
  /\ batch = Idle
  /\ get = Idle

\* Steps of createTrack and of the clock, common to all callers.
Creates ==
  \/ \E t \in TrackInputs, tick \in BOOLEAN : createTrack_call(t, tick)
  \/ \E up \in BOOLEAN : createTrack_create(up)
  \/ Tick

\* Callers that create, update (any field), deleteAudioFile and deleteTrack.
Next ==
  \/ Quiet /\ Creates
  \/ Quiet /\ \E id \in Ids, u \in Updates : updateTrack_call(id, u)
  \/ Quiet /\ \E up \in BOOLEAN : updateTrack_findOneAndUpdate(up)
  \/ Quiet /\ \E id \in Ids : deleteAudioFile_call(id)
  \/ Quiet /\ \E up \in BOOLEAN : deleteAudioFile_await(up)
  \/ Quiet /\ \E id \in Ids : deleteTrack_call(id)
  \/ Quiet /\ \E up \in BOOLEAN : deleteTrack_await(up)
  \/ createTrack_return
  \/ updateTrack_return
  \/ deleteAudioFile_return
  \/ deleteTrack_return

Spec == Init /\ [][Next]_vars

\* Callers that create, upload audio (saveAudioFile, then updateTrack with
\* the URL), deleteAudioFile and deleteTrack.
NextMedia ==
  \/ Quiet /\ Creates
  \/ Quiet /\ \E id \in Ids : saveAudioFile(id)
  \/ Quiet /\ \E id \in Ids, u \in UrlUpdates : updateTrack_call(id, u)
  \/ Quiet /\ \E up \in BOOLEAN : updateTrack_findOneAndUpdate(up)
  \/ Quiet /\ \E id \in Ids : deleteAudioFile_call(id)
  \/ Quiet /\ \E up \in BOOLEAN : deleteAudioFile_await(up)
  \/ Quiet /\ \E id \in Ids : deleteTrack_call(id)
  \/ Quiet /\ \E up \in BOOLEAN : deleteTrack_await(up)
  \/ createTrack_return
  \/ updateTrack_return
  \/ deleteAudioFile_return
  \/ deleteTrack_return

SpecMedia == Init /\ [][NextMedia]_vars

\* Callers that create, upload audio and deleteMultipleTracks.
NextBatch ==
  \/ Quiet /\ Creates
  \/ Quiet /\ \E id \in Ids : saveAudioFile(id)
  \/ Quiet /\ \E id \in Ids, u \in UrlUpdates : updateTrack_call(id, u)
  \/ Quiet /\ \E up \in BOOLEAN : updateTrack_findOneAndUpdate(up)
  \/ Quiet /\ \E ids \in IdLists : deleteMultipleTracks_call(ids)
  \/ Quiet /\ \E up \in BOOLEAN : deleteMultipleTracks_await(up)
  \/ createTrack_return
  \/ updateTrack_return
  \/ deleteMultipleTracks_return

SpecBatch == Init /\ [][NextBatch]_vars

\* Callers that create, deleteTrack and getTracks.
NextQuery ==
  \/ Quiet /\ Creates
  \/ Quiet /\ \E id \in Ids : deleteTrack_call(id)
  \/ Quiet /\ \E up \in BOOLEAN : deleteTrack_await(up)
  \/ Quiet /\ \E p \in QueryParams : getTracks_call(p)
  \/ Quiet /\ \E up \in BOOLEAN : getTracks_countDocuments(up)
  \/ Quiet /\ \E up \in BOOLEAN : getTracks_find(up)
  \/ createTrack_return
  \/ deleteTrack_return
  \/ getTracks_return

SpecQuery == Init /\ [][NextQuery]_vars

(* ------------------------------- claims -------------------------------- *)

\* C1 (as claimed): when deleteTrack(id) has returned true for a track that
\* had a non-empty audioFile and whose media object was in the Media Store,
\* the media object is no longer in the Media Store and the record is gone.
C1_CascadeRemovesMedia ==
  (del.pc = "returned" /\ del.ret /\ del.audioFile # "" /\ del.hosted)
    => (PublicId(del.id) \notin media /\ \A t \in store : t.id # del.id)

\* C2 (as claimed): a step in which updateTrack's findOneAndUpdate is
\* answered leaves the set of ids in the Track Store unchanged (no record
\* gets another id), whatever the partial fields are.
C2_UpdateKeepsIds ==
  [][(update.pc = "findOneAndUpdate" /\ update'.pc \in Answered)
       => {t.id : t \in store'} = {t.id : t \in store}]_vars

\* C3: after every step no two records share an id and no two share a slug;
\* and a createTrack whose slug is the slug of a stored record fails and
\* leaves the store unchanged.
C3_UniqueIdAndSlug ==
  [][/\ \A a, b \in store' : a # b => (a.id # b.id /\ a.slug # b.slug)
     /\ (/\ create.pc = "create" /\ create'.pc \in Answered
         /\ \E t \in store : t.slug = create.doc.slug)
          => (create'.pc = "thrown" /\ store' = store)]_vars

\* C3's case: a createTrack was refused for its slug alone (no stored
\* record has its id).
C3_Witness ==
  /\ create.pc = "thrown" /\ create.error = "E11000"
  /\ \E t \in store : t.slug = create.doc.slug
  /\ \A t \in store : t.id # create.doc.id

\* C4 (as claimed): a createTrack whose slug differs from every stored slug
\* is never refused as a duplicate: it gets an id no stored record has, also
\* when it reads the clock value an earlier createTrack read.
C4_FreshIdForFreshSlug ==
  [][(/\ create.pc = "create" /\ create'.pc = "thrown"
      /\ create'.error = "E11000")
       => \E t \in store : t.slug = create.doc.slug]_vars

\* The ids of `ids` at the positions whose flag is `want`, in order.
RECURSIVE C5_Select(_, _, _)
C5_Select(ids, flags, want) ==
  IF ids = <<>> THEN <<>>
  ELSE (IF Head(flags) = want THEN <<Head(ids)>> ELSE <<>>)
         \o C5_Select(Tail(ids), Tail(flags), want)

\* C5: when deleteMultipleTracks(ids) has returned, success is the ids, in
\* input order, whose record was in the store when their turn came, failed
\* is the other ids in input order, and every position of ids is in exactly
\* one of the two.
C5_Partition ==
  batch.pc = "returned" =>
    /\ Len(batch.existed) = Len(batch.ids)
    /\ batch.success = C5_Select(batch.ids, batch.existed, TRUE)
    /\ batch.failed = C5_Select(batch.ids, batch.existed, FALSE)
    /\ Len(batch.success) + Len(batch.failed) = Len(batch.ids)

\* C5's case: a batch naming one id twice has returned it once in success
\* and afterwards in failed.
C5_Witness ==
  /\ batch.pc = "returned"
  /\ Len(batch.ids) = 2 /\ batch.ids[1] = batch.ids[2]
  /\ batch.success = <<batch.ids[1]>>
  /\ batch.failed = <<batch.ids[2]>>

\* C6 (as claimed): a deleteMultipleTracks call never ends before a delete
\* was attempted for every id of its list: it ends by returning a result
\* that covers all ids, also when a store call of one item raises an error.
C6_BatchCoversAllIds ==
  batch.pc \in Answered =>
    /\ batch.pc = "returned"
    /\ Len(batch.success) + Len(batch.failed) = Len(batch.ids)

\* The documents of `docs` that the query's filter matches.
C7_Matching(docs, params) == {d \in docs : matches(d, queryFilter(params))}

\* d comes strictly before e in the query's order.
C7_Before(d, e, params) ==
  LET key == Param(params, "sort")
  IN IF Param(params, "order") = "asc" THEN StrLess(d[key], e[key])
     ELSE StrLess(e[key], d[key])

\* `page` holds the records at positions first+1 .. first+size of the
\* matching records M in the query's order (equal keys in any order): it has
\* the length left at that offset, holds matching records without
\* repetition, and its n-th record has at most first+n-1 records of M
\* before it and at least first+n not after it.
C7_IsPage(page, M, params) ==
  LET size == Param(params, "limit")
      first == (Param(params, "page") - 1) * size
      left == IF Cardinality(M) > first THEN Cardinality(M) - first ELSE 0
  IN /\ Len(page) = (IF left < size THEN left ELSE size)
     /\ \A n \in 1..Len(page) : page[n] \in M
     /\ \A m, n \in 1..Len(page) : m # n => page[m] # page[n]
     /\ \A m, n \in 1..Len(page) : m < n => ~C7_Before(page[n], page[m], params)
     /\ \A n \in 1..Len(page) :
          /\ Cardinality({d \in M : C7_Before(d, page[n], params)}) <= first + n - 1
          /\ Cardinality({d \in M : ~C7_Before(page[n], d, params)}) >= first + n

\* C7: getTracks returns as total the number of records matching the filter
\* in the store it counted (whatever page and limit are) and as tracks the
\* records at positions (page-1)*limit+1 .. page*limit of the matching
\* records of the store it read, in the sort order; without parameters every
\* record matches and the order is createdAt descending.
C7_TotalAndPage ==
  [][(get.pc = "find" /\ get'.pc = "returned") =>
       /\ get'.total = Cardinality(C7_Matching(get.counted, get.params))
       /\ C7_IsPage(get'.tracks, C7_Matching(store, get.params), get.params)
       /\ get.params = <<>> =>
            /\ get'.total = Cardinality(get.counted)
            /\ Len(get'.tracks) = Cardinality(store)
            /\ \A m, n \in 1..Len(get'.tracks) :
                 m < n => ~StrLess(get'.tracks[m].createdAt, get'.tracks[n].createdAt)]_vars

\* C7's case: the second page, of size one, of two matching records.
C7_Witness ==
  /\ get.pc = "returned"
  /\ get.params # <<>> /\ get.params.page = 2 /\ get.params.limit = 1
  /\ get.total = 2
  /\ Len(get.tracks) = 1

\* A deleteAudioFile call c saw no track, or a track without audioFile.
C8_NothingToDelete(id) ==
  \A t \in store : t.id = id => t.audioFile = ""

\* C8: deleteAudioFile(id) returns false exactly out of its lookup, when the
\* track does not exist or its audioFile is empty, and that step changes
\* neither store; otherwise it goes on to delete the media object keyed by
\* the id, then sets the record's audioFile to empty and returns true.
C8_DeleteAudioFile ==
  [][/\ (audio.pc = "getTrackById" /\ audio'.pc \notin {"getTrackById", "thrown"}) =>
          IF C8_NothingToDelete(audio.id)
          THEN /\ audio'.pc = "returned" /\ ~audio'.ret
               /\ store' = store /\ media' = media
          ELSE audio'.pc = "destroy" /\ store' = store /\ media' = media
     /\ (audio.pc = "destroy" /\ audio'.pc \notin {"destroy", "thrown"}) =>
          /\ audio'.pc = "updateTrack"
          /\ media' = media \ {PublicId(audio.id)}
          /\ store' = store
     /\ (audio.pc = "updateTrack" /\ audio'.pc \notin {"updateTrack", "thrown"}) =>
          /\ audio'.pc = "returned" /\ audio'.ret
          /\ \A t \in store' : t.id = audio.id => t.audioFile = ""
          /\ media' = media
     /\ (audio.pc # "returned" /\ audio'.pc = "returned") =>
          audio'.ret = (audio.pc = "updateTrack")]_vars

\* C8's case: deleteAudioFile returned true for a record that is still
\* stored, after removing its media object.
C8_Witness ==
  /\ audio.pc = "returned" /\ audio.ret
  /\ \E t \in store : t.id = audio.id /\ t.audioFile = ""
  /\ PublicId(audio.id) \notin media

\* C9 (as claimed): whenever a step deletes a media object, the record
\* with the object's id has an empty audioFile in the state reached.
C9_NoDanglingReference ==
  [][\A t \in store' :
       (PublicId(t.id) \in media /\ PublicId(t.id) \notin media')
         => t.audioFile = ""]_vars

\* The deleteAudioFile calls (deleteAudioFile itself, and the one deleteTrack
\* makes) before and after a step.
C9_Calls == <<audio, del>>

\* C9 (amended): a media object is deleted only by a deleteAudioFile call,
\* which is then suspended before its updateTrack; and when that updateTrack
\* is answered without error the record with the id, if there is one, has an
\* empty audioFile.
C9_ClearedByTheCall ==
  [][/\ media' # media /\ media' \subseteq media =>
          \E n \in 1..2 :
            /\ C9_Calls[n].pc = "destroy" /\ C9_Calls'[n].pc = "updateTrack"
            /\ media \ media' = {PublicId(C9_Calls[n].id)}
     /\ \A n \in 1..2 :
          (C9_Calls[n].pc = "updateTrack" /\ C9_Calls'[n].pc = "returned") =>
             \A t \in store' : t.id = C9_Calls[n].id => t.audioFile = ""]_vars

\* C9's case: while an updateTrack of the same id is in flight, a
\* deleteAudioFile has deleted the media object and then cleared audioFile.
C9_Witness ==
  /\ audio.pc = "returned" /\ audio.ret
  /\ update.pc = "findOneAndUpdate" /\ update.id = audio.id
  /\ \E t \in store : t.id = audio.id /\ t.audioFile = ""
  /\ PublicId(audio.id) \notin media

\* C10 (as claimed): the total getTracks returns is the number of records
\* matching the filter in the store its page was read from, and the page
\* holds no more records than total.
C10_TotalOfTheStateRead ==
  [][(get.pc = "find" /\ get'.pc = "returned") =>
       /\ get'.total = Cardinality(C7_Matching(store, get.params))
       /\ Len(get'.tracks) <= get'.total]_vars

\* C10 (amended): when the store the page is read from holds the records it
\* held when they were counted, total is the number of records matching the
\* filter in it and the page holds no more records than total.
C10_TotalWhenStoreUnchanged ==
  [][(get.pc = "find" /\ get'.pc = "returned" /\ get.counted = store) =>
       /\ get'.total = Cardinality(C7_Matching(store, get.params))
       /\ Len(get'.tracks) <= get'.total]_vars

\* C10's case: getTracks has returned two records counted and read from the
\* same store contents while a createTrack is in flight.
C10_Witness ==
  /\ get.pc = "returned" /\ get.counted = store
  /\ get.total = 2 /\ Len(get.tracks) = 2
  /\ create.pc = "create"
====
